---- MODULE Spec2Model ----
(***************************************************************************)
(* Model of Pypable/typing.py: the open-mode enumeration, the class        *)
(* extension helpers (get_parent_class, extend_class, wrap_object) and the *)
(* relaxed isinstance().                                                   *)
(*                                                                         *)
(* Python strings are modelled as sequences of one-character strings, so   *)
(* that concatenation, str.title() and the shape of an open mode are       *)
(* computed rather than assumed.                                           *)
(***************************************************************************)
EXTENDS Integers, Sequences, FiniteSets, TLC

VARIABLES
    mode_str,       \* open modes: the candidate string handed to the check
    mode_ok,        \* open modes: "unset", or "True"/"False": is it an OpenMode
    obj,            \* isinstance(): the value checked
    typ,            \* isinstance(): the type specification
    isinstance_ret, \* isinstance(): "unset", "True", "False" or "TypeError"
    classes,        \* every class object alive: id (index) -> name, bases, attrs
    sys_modules,    \* sys.modules: module name -> attribute name -> object
    call            \* the last call of the extension helpers and what it returned

vars == <<mode_str, mode_ok, obj, typ, isinstance_ret, classes, sys_modules, call>>

typing_vars == <<mode_str, mode_ok, obj, typ, isinstance_ret>>

extension_vars == <<classes, sys_modules, call>>

(***************************************************************************)
(* Bounds                                                                  *)
(***************************************************************************)
MaxModeLen == 4     \* longest candidate open-mode string
MaxArgs == 2        \* most members of a type list / parameters of a generic
MaxLen == 2         \* most elements of a container value
MaxMixins == 2      \* most mixins passed to one call
MaxCreated == 2     \* most classes synthesized in one run

(***************************************************************************)
(* Generic helpers                                                         *)
(***************************************************************************)
SeqsUpTo(S, n) == UNION {[1..k -> S] : k \in 0..n}

Range(s) == {s[i] : i \in DOMAIN s}

(***************************************************************************)
(* === INTERNAL TYPES ===  (typing.py lines 10-17, 40)                      *)
(***************************************************************************)
OpenDirection == << <<"r">>, <<"w">>, <<"x">>, <<"a">> >>

OpenEncoding == << <<"b">>, <<"t">> >>

OpenModifier == << <<"+">>, <<>> >>

\* [x + z for x in direction for z in modifier]
PlainModes ==
    [k \in 1..(Len(OpenDirection) * Len(OpenModifier)) |->
        OpenDirection[((k - 1) \div Len(OpenModifier)) + 1]
        \o OpenModifier[((k - 1) % Len(OpenModifier)) + 1]]

\* [x + y + z for x in direction for y in encoding for z in modifier]
EncodedModes ==
    [k \in 1..(Len(OpenDirection) * Len(OpenEncoding) * Len(OpenModifier)) |->
        OpenDirection[((k - 1) \div (Len(OpenEncoding) * Len(OpenModifier))) + 1]
        \o OpenEncoding[(((k - 1) \div Len(OpenModifier)) % Len(OpenEncoding)) + 1]
        \o OpenModifier[((k - 1) % Len(OpenModifier)) + 1]]

\* a plausible slip: the modes without an encoding token are left out
open_modes_no_plain == EncodedModes

open_modes == PlainModes \o EncodedModes

\* OpenMode = Literal[_open_modes]: a string is an OpenMode iff it is one of
\* the literal's arguments
OpenMode(s) == \E i \in DOMAIN open_modes : open_modes[i] = s

(***************************************************************************)
(* === class objects, modules and the objects handed to the helpers ===    *)
(*                                                                         *)
(* A reference is [kind, id]: a class (id indexes classes), a function     *)
(* (id indexes Functions), an instance (id is its class) or, for a call    *)
(* that raised, the exception's name with id 0.                            *)
(***************************************************************************)
Ref(kind, id) == [kind |-> kind, id |-> id, name |-> <<>>]

\* a class passed by name: the string itself
StrArg(name) == [kind |-> "str", id |-> 0, name |-> name]

Raised(exc) == Ref(exc, 0)

Str_int == <<"i", "n", "t">>

Str_IO == <<"I", "O">>

Str_Placeholder == <<"P", "l", "a", "c", "e", "h", "o", "l", "d", "e", "r">>

Str_placeholder == <<"p", "l", "a", "c", "e", "h", "o", "l", "d", "e", "r">>

Str_Mixin == <<"M", "i", "x", "i", "n">>

Str_Other == <<"O", "t", "h", "e", "r">>

Str_Derived == <<"D", "e", "r", "i", "v", "e", "d">>

Str_Inner == <<"I", "n", "n", "e", "r">>

Str_r == <<"r">>

Str_Nope == <<"N", "o", "p", "e">>

Str_f == <<"f">>

Str_outer == <<"o", "u", "t", "e", "r">>

Str_locals == <<"<", "l", "o", "c", "a", "l", "s", ">">>

Class(name, module, bases, attrs) ==
    [name |-> name, module |-> module, bases |-> bases, attrs |-> attrs]

\* ids of the classes that exist before any call
IntClass == 1

IO == 2

Placeholder == 3

Mixin == 4

Other == 5

Derived == 6

LowerPlaceholder == 7

\* int; typing.IO and Placeholder (the two classes that are members of the
\* Pypable.typing module); and a caller's classes: two mixins, a class
\* derived from the first mixin, and a class spelled "placeholder"
InitialClasses ==
    << Class(Str_int, "builtins", <<>>, {}),
       Class(Str_IO, "typing", <<>>, {}),
       Class(Str_Placeholder, "Pypable.typing", <<>>, {}),
       Class(Str_Mixin, "__main__", <<>>, {}),
       Class(Str_Other, "__main__", <<>>, {}),
       Class(Str_Derived, "__main__", <<Mixin>>, {}),
       Class(Str_placeholder, "__main__", <<>>, {}) >>

\* the caller's module-level functions f and outer
Functions == <<Str_f, Str_outer>>

InitialModules ==
    [m \in {"builtins", "typing", "__main__", "Pypable.typing"} |->
        CASE m = "builtins" -> (Str_int :> Ref("class", IntClass))
          [] m = "typing" -> (Str_IO :> Ref("class", IO))
          [] m = "__main__" ->
                (Str_Mixin :> Ref("class", Mixin)) @@ (Str_Other :> Ref("class", Other))
                @@ (Str_Derived :> Ref("class", Derived))
                @@ (Str_placeholder :> Ref("class", LowerPlaceholder))
                @@ (Str_f :> Ref("function", 1)) @@ (Str_outer :> Ref("function", 2))
          [] m = "Pypable.typing" ->
                (Str_IO :> Ref("class", IO)) @@ (Str_Placeholder :> Ref("class", Placeholder))]

\* The objects handed to get_parent_class / wrap_object, by what the code
\* reads of them: __module__ ("" when absent or None), __qualname__ as its
\* dotted segments (<<>> when absent) and __class__ (0: a class outside the
\* model, never returned for these objects).
Object(module, qualname, cls) == [module |-> module, qualname |-> qualname, cls |-> cls]

Objects ==
    [five |-> Object("", <<>>, IntClass),                                    \* 5
     builtin |-> Object("", <<Str_int, Str_r>>, 0),                     \* int.r
     instance |-> Object("__main__", <<>>, Derived),                   \* Derived()
     method |-> Object("__main__", <<Str_Derived, Str_r>>, 0),          \* Derived().r
     f |-> Object("__main__", <<Str_f>>, 0),                           \* def f
     nested |-> Object("__main__", <<Str_Derived, Str_Inner, Str_r>>, 0),  \* Derived.Inner.r
     inner |-> Object("__main__", <<Str_outer, Str_locals, Str_f>>, 0), \* outer.<locals>.f
     local_method |->                                       \* outer.<locals>.Inner.r
        Object("__main__", <<Str_outer, Str_locals, Str_Inner, Str_r>>, 0)]

ObjectNames == DOMAIN Objects

\* a class object seen as an argument of get_parent_class
ClassAsObject(cs, k) == Object(cs[k].module, <<cs[k].name>>, 0)

(***************************************************************************)
(* === get_parent_class ===  (typing.py lines 49-60)                        *)
(***************************************************************************)
RECURSIVE IndexOf(_, _, _)
\* index of the first element of s equal to x at or after i, 0 if none
IndexOf(s, x, i) ==
    IF i > Len(s) THEN 0
    ELSE IF s[i] = x THEN i
    ELSE IndexOf(s, x, i + 1)

\* qualname.split('.<locals>', 1)[0]: the segments before the first marker
SplitLocals(qualname) ==
    LET i == IndexOf(qualname, Str_locals, 2)
    IN  IF i = 0 THEN qualname ELSE SubSeq(qualname, 1, i - 1)

\* s.rsplit('.', 1)[0]: all but the last dotted segment, or s when it has no dot
RSplitHead(segments) ==
    IF Len(segments) > 1 THEN SubSeq(segments, 1, Len(segments) - 1) ELSE segments

RECURSIVE Join(_)
\* the dotted string the segments stand for
Join(segments) ==
    IF segments = <<>> THEN <<>>
    ELSE IF Len(segments) = 1 THEN segments[1]
    ELSE segments[1] \o <<".">> \o Join(Tail(segments))

\* getattr(module, name)
getattr(modules, module, name) ==
    IF name \in DOMAIN modules[module] THEN modules[module][name]
    ELSE Raised("AttributeError")

get_parent_class(modules, o) ==
    IF o.module # "" THEN
        IF o.qualname = <<>> THEN Raised("AttributeError")
        ELSE getattr(modules, o.module, Join(RSplitHead(SplitLocals(o.qualname))))
    ELSE IF o.qualname # <<>> THEN
        getattr(modules, "builtins", Join(RSplitHead(SplitLocals(o.qualname))))
    ELSE Ref("class", o.cls)

(***************************************************************************)
(* === extend_class ===  (typing.py lines 63-93)                            *)
(***************************************************************************)
LowerLetters ==
    << "a", "b", "c", "d", "e", "f", "g", "h", "i", "j", "k", "l", "m",
       "n", "o", "p", "q", "r", "s", "t", "u", "v", "w", "x", "y", "z" >>

UpperLetters ==
    << "A", "B", "C", "D", "E", "F", "G", "H", "I", "J", "K", "L", "M",
       "N", "O", "P", "Q", "R", "S", "T", "U", "V", "W", "X", "Y", "Z" >>

\* str.upper() / str.lower() on one character, as lookup tables
UpperOf == [c \in Range(LowerLetters) |-> UpperLetters[IndexOf(LowerLetters, c, 1)]]

LowerOf == [c \in Range(UpperLetters) |-> LowerLetters[IndexOf(UpperLetters, c, 1)]]

IsLetter(c) == c \in DOMAIN UpperOf \/ c \in DOMAIN LowerOf

ToUpper(c) == IF c \in DOMAIN UpperOf THEN UpperOf[c] ELSE c

ToLower(c) == IF c \in DOMAIN LowerOf THEN LowerOf[c] ELSE c

\* str.title(): a letter that starts a word is upper-cased, every other
\* letter lower-cased
title(s) ==
    [i \in DOMAIN s |->
        IF i = 1 \/ ~IsLetter(s[i - 1]) THEN ToUpper(s[i]) ELSE ToLower(s[i])]

RECURSIVE Ancestors(_, _)
\* the classes k derives from, itself included (its __mro__ as a set)
Ancestors(cs, k) ==
    {k} \cup UNION {Ancestors(cs, cs[k].bases[i]) : i \in DOMAIN cs[k].bases}

\* issubclass(k, mixins) with a tuple: true when k derives from ANY of them
issubclass(cs, k, mixins) == \E i \in DOMAIN mixins : mixins[i] \in Ancestors(cs, k)

\* { name: obj for name, obj in inspect.getmembers(module) if inspect.isclass(obj) }
classes_in_frame(modules) ==
    LET members == modules["Pypable.typing"]
        names == {n \in DOMAIN members : members[n].kind = "class"}
    IN  [n \in names |-> members[n]]

RECURSIVE JoinTitles(_, _)
\* ''.join(mixin.__name__.title() for mixin in mixins)
JoinTitles(cs, mixins) ==
    IF mixins = <<>> THEN <<>>
    ELSE title(cs[Head(mixins)].name) \o JoinTitles(cs, Tail(mixins))

extension_name(cs, k, mixins) == JoinTitles(cs, mixins) \o title(cs[k].name)

\* type(name, bases, attrs): a base listed twice is a TypeError; the new
\* class belongs to the module that called type()
type(cs, name, bases, attrs) ==
    IF \E i, j \in DOMAIN bases : i # j /\ bases[i] = bases[j]
    THEN [ret |-> Raised("TypeError"), path |-> "raised", classes |-> cs]
    ELSE [ret |-> Ref("class", Len(cs) + 1), path |-> "new",
          classes |-> Append(cs, Class(name, "Pypable.typing", bases, attrs))]

\* The whole of extend_class: what it returns, by which path, and the
\* classes alive afterwards.  The module's namespace is only read.
extend_class(cs, modules, cls, mixins, attrs) ==
    LET frame == classes_in_frame(modules)
        stay(ret, path) == [ret |-> ret, path |-> path, classes |-> cs]
    IN  IF cls.kind = "str" /\ cls.name \notin DOMAIN frame
        THEN stay(Raised("KeyError"), "raised")
        ELSE LET c == IF cls.kind = "str" THEN frame[cls.name] ELSE cls
             IN  IF c.kind # "class" THEN stay(Raised("TypeError"), "raised")
                 ELSE IF issubclass(cs, c.id, mixins) THEN stay(c, "already")
                 ELSE LET name == extension_name(cs, c.id, mixins)
                      IN  IF name \in DOMAIN frame THEN stay(frame[name], "cached")
                          ELSE type(cs, name, mixins \o <<c.id>>, attrs)

(***************************************************************************)
(* === wrap_object ===  (typing.py lines 96-109)                            *)
(***************************************************************************)
\* composite(obj): int and its subclasses accept an int; the caller's
\* classes define no constructor and take no argument
Construct(cs, k, o) ==
    IF IntClass \in Ancestors(cs, k) /\ o = "five" THEN Ref("instance", k)
    ELSE Raised("TypeError")

\* The keywords of wrap_object are forwarded as keywords of extend_class,
\* whose only keyword is attrs: kw is the set of keyword names, and the
\* attrs keyword, when given, carries the attribute x.
wrap_object(cs, modules, o, mixins, kw) ==
    LET cls == get_parent_class(modules, Objects[o])
        stay(ret) == [ret |-> ret, path |-> "raised", classes |-> cs, cls |-> cls]
    IN  IF cls.kind \notin {"class", "function"} THEN stay(cls)
        ELSE IF kw \ {"attrs"} # {} THEN stay(Raised("TypeError"))
        ELSE LET e == extend_class(cs, modules, cls, mixins,
                                   IF "attrs" \in kw THEN {"x"} ELSE {})
             IN  IF e.ret.kind # "class" THEN [e EXCEPT !.path = "raised"] @@ [cls |-> cls]
                 ELSE LET made == Construct(e.classes, e.ret.id, o)
                      IN  [ret |-> made,
                           path |-> IF made.kind = "instance" THEN e.path ELSE "raised",
                           classes |-> e.classes, cls |-> cls]

(***************************************************************************)
(* The state of the extension helpers before any call                     *)
(***************************************************************************)
Call(op, cls, o, mixins, attrs, ret, path) ==
    [op |-> op, cls |-> cls, obj |-> o, mixins |-> mixins, attrs |-> attrs,
     ret |-> ret, path |-> path]

NoCall == Call("none", Ref("none", 0), "", <<>>, {}, Ref("none", 0), "")

IdleExtension ==
    /\ classes = InitialClasses
    /\ sys_modules = InitialModules
    /\ call = NoCall

(***************************************************************************)
(* === isinstance ===  (typing.py lines 114-124)                            *)
(*                                                                         *)
(* A value is [t, elems]: its runtime type and, for a container, its       *)
(* elements.  A type specification is [k, t, args]:                        *)
(*   k = "plain"  the class t                                              *)
(*   k = "tuple"  a Python tuple of specifications                         *)
(*   k = "list"   a Python list of specifications                          *)
(*   k = "union"  typing.Union[args]                                       *)
(*   k = "param"  the subscripted generic t[args]                          *)
(***************************************************************************)
Value(t, elems) == [t |-> t, elems |-> elems]

Plain(t) == [k |-> "plain", t |-> t, args |-> <<>>]

TypeTuple(members) == [k |-> "tuple", t |-> "", args |-> members]

TypeList(members) == [k |-> "list", t |-> "", args |-> members]

UnionOf(members) == [k |-> "union", t |-> "", args |-> members]

Param(origin, args) == [k |-> "param", t |-> origin, args |-> args]

\* the values: the integer 1, the class int itself, and lists and tuples
\* whose elements are 1 or the empty tuple
ElemValues == {Value("int", <<>>), Value("tuple", <<>>)}

Values ==
    {Value("int", <<>>), Value("type", <<>>)}
    \cup {Value(t, es) : t \in {"list", "tuple"}, es \in SeqsUpTo(ElemValues, MaxLen)}

PlainTypes == {"int", "tuple"}

Origins == {"list", "tuple", "type", "Sequence"}

\* what may stand as a member of a type list or union, or as a parameter
MemberSpecs ==
    {Plain(t) : t \in PlainTypes}
    \cup {Param(o, <<Plain("int")>>) : o \in Origins}
    \cup {UnionOf(<<Plain("int"), Plain("tuple")>>)}

NonUnionMembers == {m \in MemberSpecs : m.k # "union"}

MemberLists == SeqsUpTo(MemberSpecs, MaxArgs)

TypeSpecs ==
    {Plain(t) : t \in PlainTypes}
    \cup {TypeTuple(ms) : ms \in MemberLists}
    \cup {TypeList(ms) : ms \in MemberLists}
    \cup {UnionOf(<<p[1], p[2]>>) :
            p \in {q \in NonUnionMembers \X NonUnionMembers : q[1] # q[2]}}
    \cup {Param(o, ms) : o \in Origins, ms \in MemberLists \ {<<>>}}

\* issubclass(a, b) on the modelled classes
IsSubtype(a, b) ==
    \/ a = b
    \/ a \in {"list", "tuple"} /\ b = "Sequence"

\* iter(v) succeeds
Iterable(v) == v.t \in {"list", "tuple"}

\* typing.get_origin
get_origin(spec) ==
    CASE spec.k = "union" -> "Union"
      [] spec.k = "param" -> spec.t
      [] OTHER -> "None"

\* typing.get_args
get_args(spec) == IF spec.k \in {"union", "param"} THEN spec.args ELSE <<>>

RECURSIVE builtins_isinstance(_, _)
RECURSIVE AnyIsinstance(_, _, _)
\* any(builtins.isinstance(v, _type) for _type in members), from member i on:
\* the generator stops at the first True and an exception leaves it
AnyIsinstance(v, members, i) ==
    IF i > Len(members) THEN "False"
    ELSE LET r == builtins_isinstance(v, members[i])
         IN  IF r = "False" THEN AnyIsinstance(v, members, i + 1) ELSE r

\* Python's own isinstance() (3.10 and later): a class, a tuple of them
\* (nested allowed) or a Union, tried member by member; a subscripted generic
\* or a list is a TypeError
builtins_isinstance(v, spec) ==
    CASE spec.k = "plain" -> IF IsSubtype(v.t, spec.t) THEN "True" ELSE "False"
      [] spec.k = "tuple" -> AnyIsinstance(v, spec.args, 1)
      [] spec.k = "union" -> AnyIsinstance(v, spec.args, 1)
      [] OTHER -> "TypeError"

RECURSIVE AllZipped(_, _, _)
\* all(builtins.isinstance(arg, typ_arg) for arg, typ_arg in zip(elems, args)):
\* zip stops at the shorter sequence, all() at the first False
AllZipped(elems, args, i) ==
    IF i > Len(elems) \/ i > Len(args) THEN "True"
    ELSE LET r == builtins_isinstance(elems[i], args[i])
         IN  IF r = "True" THEN AllZipped(elems, args, i + 1) ELSE r

\* a plausible slip: every parameter must be matched by an element
ZipAllStrict(elems, args) ==
    IF Len(elems) # Len(args) THEN "False" ELSE AllZipped(elems, args, 1)

\* zip(obj, get_args(typ)) and the all() over it
ZipAll(elems, args) == AllZipped(elems, args, 1)

\* Pypable.typing.isinstance
isinstance(v, spec) ==
    IF spec.k \in {"list", "tuple"} THEN AnyIsinstance(v, spec.args, 1)
    ELSE IF get_origin(spec) = "Union" THEN AnyIsinstance(v, get_args(spec), 1)
    ELSE IF get_origin(spec) = "None" THEN builtins_isinstance(v, spec)
    ELSE LET r == builtins_isinstance(v, Plain(get_origin(spec)))
         IN  IF r # "True" THEN r
             ELSE IF ~Iterable(v) THEN "TypeError"
             ELSE ZipAll(v.elems, get_args(spec))

IdleIsinstance ==
    /\ obj = Value("int", <<>>)
    /\ typ = Plain("int")
    /\ isinstance_ret = "unset"

InitIsinstance ==
    /\ obj \in Values
    /\ typ \in TypeSpecs
    /\ isinstance_ret = "unset"
    /\ mode_str = <<>>
    /\ mode_ok = "unset"
    /\ IdleExtension

CallIsinstance ==
    /\ isinstance_ret = "unset"
    /\ isinstance_ret' = isinstance(obj, typ)
    /\ UNCHANGED <<obj, typ, mode_str, mode_ok, extension_vars>>

NextIsinstance == CallIsinstance

SpecIsinstance == InitIsinstance /\ [][NextIsinstance]_vars

\* C5: for a well-formed type specification (every modelled one is) the
\* call returns a boolean and never raises.
C5_NeverRaises ==
    isinstance_ret # "unset" => isinstance_ret \in {"True", "False"}

\* C6: for a union, the result is true iff the relaxed check itself is true
\* for at least one member type.
C6_UnionRecursive ==
    (isinstance_ret # "unset" /\ typ.k = "union") =>
        (isinstance_ret = "True"
            <=> \E i \in DOMAIN typ.args : isinstance(obj, typ.args[i]) = "True")

EmptyTuple == Value("tuple", <<>>)

\* C7 as stated: () against any parameterized specification with at least
\* one parameter is true, whatever the origin.
C7_EmptyAlwaysTrue ==
    (isinstance_ret # "unset" /\ obj = EmptyTuple /\ typ.k = "param" /\ Len(typ.args) >= 1)
        => isinstance_ret = "True"

\* C7 amended: () against a parameterized specification with at least one
\* parameter is true exactly when () is an instance of the origin type (then
\* no element is checked); for any other origin the result is false.
C7_EmptyTrueIffOrigin ==
    (isinstance_ret # "unset" /\ obj = EmptyTuple /\ typ.k = "param" /\ Len(typ.args) >= 1)
        => /\ isinstance_ret \in {"True", "False"}
           /\ isinstance_ret = "True" <=> IsSubtype("tuple", typ.t)

\* () has been checked against Sequence[...] with two parameters
C7_Witness ==
    /\ isinstance_ret = "True"
    /\ obj = EmptyTuple
    /\ typ.k = "param"
    /\ typ.t = "Sequence"
    /\ Len(typ.args) = 2

(***************************************************************************)
(* The extension helpers as a state machine                                *)
(***************************************************************************)
MixinClasses == {Mixin, Other}

\* the mixin lists passed: no class is listed twice
MixinLists ==
    {ms \in SeqsUpTo(MixinClasses, MaxMixins) :
        \A i, j \in DOMAIN ms : ms[i] = ms[j] => i = j}

\* the objects wrapped: 5, an instance, a bound method, a function
WrapObjects == {"five", "instance", "method", "f"}

KeywordSets == {{}, {"attrs"}, {"x"}}

\* the classes synthesized so far
Created == (DOMAIN classes) \ (DOMAIN InitialClasses)

\* the names a caller may pass instead of a class
ClassNames ==
    {Str_Placeholder, Str_Nope}
    \cup {classes[k].name : k \in Created}

Init ==
    /\ IdleExtension
    /\ IdleIsinstance
    /\ mode_str = <<>>
    /\ mode_ok = "unset"

ExtendClass(cls, mixins, attrs) ==
    \E e \in {extend_class(classes, sys_modules, cls, mixins, attrs)} :
        /\ Len(e.classes) - Len(InitialClasses) <= MaxCreated
        /\ classes' = e.classes
        /\ call' = Call("extend_class", cls, "", mixins, attrs, e.ret, e.path)
        /\ UNCHANGED <<sys_modules, typing_vars>>

WrapObject(o, mixins, kw) ==
    \E w \in {wrap_object(classes, sys_modules, o, mixins, kw)} :
        /\ Len(w.classes) - Len(InitialClasses) <= MaxCreated
        /\ classes' = w.classes
        /\ call' = Call("wrap_object", w.cls, o, mixins, kw, w.ret, w.path)
        /\ UNCHANGED <<sys_modules, typing_vars>>

GetParentClass(o) ==
    /\ call' = Call("get_parent_class", Ref("none", 0), o, <<>>, {},
                    get_parent_class(sys_modules, Objects[o]), "")
    /\ UNCHANGED <<classes, sys_modules, typing_vars>>

GetParentClassOfClass(k) ==
    /\ call' = Call("get_parent_class", Ref("class", k), "", <<>>, {},
                    get_parent_class(sys_modules, ClassAsObject(classes, k)), "")
    /\ UNCHANGED <<classes, sys_modules, typing_vars>>

Next ==
    \/ \E k \in DOMAIN classes, mixins \in MixinLists :
            ExtendClass(Ref("class", k), mixins, {})
    \/ \E name \in ClassNames, mixins \in MixinLists :
            ExtendClass(StrArg(name), mixins, {})

Spec == Init /\ [][Next]_vars

NextWrap ==
    \/ \E o \in WrapObjects, mixins \in MixinLists, kw \in KeywordSets :
            WrapObject(o, mixins, kw)
    \/ \E o \in ObjectNames : GetParentClass(o)
    \/ \E k \in DOMAIN classes : GetParentClassOfClass(k)

SpecWrap == Init /\ [][NextWrap]_vars

(***************************************************************************)
(* Properties of the extension helpers                                     *)
(***************************************************************************)
\* the class a call of extend_class was asked to extend, once a name is
\* resolved against the module's classes
Requested(c) ==
    IF c.kind = "str" THEN classes_in_frame(sys_modules)[c.name] ELSE c

Extended == call.op = "extend_class" /\ call.ret.kind = "class"

\* C1: two calls with the same base class and the same (non-empty)
\* capability list, the base not derived from any of them, return the
\* identical composite: the class a call returns is the one any earlier
\* identical call synthesized, and no two synthesized composites share a
\* canonical name.
C1_SameCompositeEveryTime ==
    /\ (/\ Extended
        /\ call.mixins # <<>>
        /\ ~issubclass(classes, Requested(call.cls).id, call.mixins))
            => \A k \in Created :
                    classes[k].bases = call.mixins \o <<Requested(call.cls).id>>
                        => call.ret.id = k
    /\ \A j, k \in Created :
            (/\ Len(classes[j].bases) > 1
             /\ Len(classes[k].bases) > 1
             /\ classes[j].name = classes[k].name) => j = k

\* C2: the class returned is the base class or a subclass of it, and has
\* every requested capability as an ancestor, on every return path.
C2_CombinesBaseAndMixins ==
    Extended =>
        /\ Requested(call.cls).id \in Ancestors(classes, call.ret.id)
        /\ \A i \in DOMAIN call.mixins :
                call.mixins[i] \in Ancestors(classes, call.ret.id)

\* C3: when the base class already has all requested capabilities as
\* ancestors, the call returns the base class itself and synthesizes nothing.
C3_NoOpWhenSatisfied ==
    (/\ Extended
     /\ \A i \in DOMAIN call.mixins :
            call.mixins[i] \in Ancestors(classes, Requested(call.cls).id))
        => /\ call.ret = Requested(call.cls)
           /\ call.path # "new"

\* C4: a synthesized class is registered: right after the call it is in the
\* module's class table under its canonical name, and a later call that
\* passes that name as a string resolves instead of raising a lookup error.
C4_SynthesizedIsRegistered ==
    /\ (Extended /\ call.path = "new") =>
            /\ classes[call.ret.id].name \in DOMAIN classes_in_frame(sys_modules)
            /\ classes_in_frame(sys_modules)[classes[call.ret.id].name] = call.ret
    /\ (/\ call.op = "extend_class"
        /\ call.cls.kind = "str"
        /\ \E k \in Created : classes[k].name = call.cls.name)
            => call.ret.kind # "KeyError"

\* C8: for an object its own class accepts as the single constructor
\* argument (5, for int), any capabilities and any keyword attributes, the
\* call does not fail: the result is an instance of the object's class and
\* of every capability, and its class carries the keyword attributes (a
\* keyword named attrs being taken as the dictionary of attributes).
C8_WrapReturnsExtendedInstance ==
    (call.op = "wrap_object" /\ call.obj = "five") =>
        /\ call.ret.kind = "instance"
        /\ Objects[call.obj].cls \in Ancestors(classes, call.ret.id)
        /\ \A i \in DOMAIN call.mixins :
                call.mixins[i] \in Ancestors(classes, call.ret.id)
        /\ (call.attrs \ {"attrs"}) \subseteq classes[call.ret.id].attrs
        /\ "attrs" \in call.attrs => "x" \in classes[call.ret.id].attrs

\* the methods and functions get_parent_class is documented for
Callables == {"builtin", "method", "f", "nested", "inner", "local_method"}

\* C9: for a method, a function or a class, also one defined in a local
\* scope or in a nested class, the result of get_parent_class is a class
\* (the owner, for a method of a module-level class); for an object with
\* neither a module nor a qualified name it is the runtime class.
C9_ParentIsOwningClass ==
    (/\ call.op = "get_parent_class"
     /\ \/ call.obj \in Callables \cup {"five"}
        \/ call.cls.kind = "class" /\ call.cls.id \in DOMAIN InitialClasses)
        => /\ call.ret.kind = "class"
           /\ call.obj = "method" => call.ret.id = Derived
           /\ call.obj = "builtin" => call.ret.id = IntClass
           /\ call.obj = "five" => call.ret.id = Objects["five"].cls

(***************************************************************************)
(* Open-mode check                                                         *)
(***************************************************************************)
ModeAlphabet == {"r", "w", "x", "a", "b", "t", "+", "U"}

ModeStrings == SeqsUpTo(ModeAlphabet, MaxModeLen)

InitOpenMode ==
    /\ mode_str \in ModeStrings
    /\ mode_ok = "unset"
    /\ IdleIsinstance
    /\ IdleExtension

CheckOpenMode ==
    /\ mode_ok = "unset"
    /\ mode_ok' = IF OpenMode(mode_str) THEN "True" ELSE "False"
    /\ UNCHANGED <<mode_str, obj, typ, isinstance_ret, extension_vars>>

NextOpenMode == CheckOpenMode

SpecOpenMode == InitOpenMode /\ [][NextOpenMode]_vars

\* the shape the enumeration is documented to have: one direction token,
\* optionally one encoding token, optionally the update modifier
HasModeShape(s) ==
    \E d \in {"r", "w", "x", "a"}, e \in {<<>>, <<"b">>, <<"t">>}, m \in {<<>>, <<"+">>} :
        s = <<d>> \o e \o m

\* C10: the recognized open-mode set is exactly the 24 strings d+e+m
\* (direction, optional encoding, optional '+'), each occurring once; a
\* string is accepted iff it has that shape.
C10_OpenModeShape ==
    /\ Len(open_modes) = 24
    /\ \A i, j \in DOMAIN open_modes : open_modes[i] = open_modes[j] => i = j
    /\ \A i \in DOMAIN open_modes : HasModeShape(open_modes[i])
    /\ mode_ok # "unset" => (mode_ok = "True" <=> HasModeShape(mode_str))

\* an accepted three-token mode such as "rb+" has been checked
C10_Witness ==
    /\ mode_ok = "True"
    /\ Len(mode_str) = 3

====
